---- MODULE Spec2Model ----
(***************************************************************************)
(* The minefield engine of minesweeper/field.py (class Field and the       *)
(* module-level functions it calls) and the key handling of                *)
(* minesweeper/application.py (class FieldController).                     *)
(*                                                                         *)
(* A grid (numpy array of 0/1 or of counts) is a function from the cells   *)
(* <<row, col>>, 0-based, to integers.  Python's None is the empty tuple,  *)
(* which no grid with at least one cell equals.                            *)
(***************************************************************************)
EXTENDS Integers, Sequences, FiniteSets, Bags, TLC

\* Fields of at most MaxCells cells (rows * cols <= MaxCells) are enumerated.
MaxCells == 3
\* At most MaxFlags cells carry a flag at the same time.
MaxFlags == 2
\* The controller is followed on fields of at most MaxCtrlCells cells.
MaxCtrlCells == 2
\* Mine matrices of at most MaxMatrixCells cells are supplied to from_mine_matrix.
MaxMatrixCells == 9
\* pick_square is followed step by step on fields of at most MaxStepCells cells.
MaxStepCells == 4
\* Under fairness it is followed on those of at most MaxFairSide rows and columns.
MaxFairSide == 2
\* The mine ratios a field is constructed with, as <<numerator, denominator>>;
\* the denominators are powers of two, so rows*cols*mine_ratio is exact in
\* floating point.  1/4 is the default of the command line.
MineRatios == {<<0, 1>>, <<1, 4>>, <<1, 2>>, <<3, 4>>, <<1, 1>>}

None == << >>

VARIABLES
    rows, cols, mine_ratio,      \* Field.rows, Field.cols, Field.mine_ratio
    _mines,                      \* Field._mines: None or a 0/1 grid
    _adjacency_matrix,           \* Field._adjacency_matrix: None or a grid of counts
    _revealed,                   \* Field._revealed: 0/1 grid
    _flagged,                    \* Field._flagged: 0/1 grid
    _status,                     \* FieldController._status
    _cursor_row, _cursor_col,    \* FieldController._cursor_row, _cursor_col
    _auto_reveal,                \* FieldController._auto_reveal
    rendered,                    \* create_content has run since the last key event
    last                         \* the last call made on the field, with what it returned

fieldVars == <<rows, cols, mine_ratio, _mines, _adjacency_matrix, _revealed, _flagged>>
ctrlVars == <<_status, _cursor_row, _cursor_col, _auto_reveal, rendered>>
vars == <<fieldVars, ctrlVars, last>>

----------------------------------------------------------------------------
(* Grids *)

Cells(num_rows, num_cols) == (0 .. num_rows - 1) \X (0 .. num_cols - 1)

\* np.zeros((num_rows, num_cols), dtype=int)
zeros(num_rows, num_cols) == [coord \in Cells(num_rows, num_cols) |-> 0]

\* grid.shape
shape(grid) ==
    << Cardinality({coord[1] : coord \in DOMAIN grid}),
       Cardinality({coord[2] : coord \in DOMAIN grid}) >>

\* sum of the entries of grid at the cells of S
RECURSIVE SumOver(_, _)
SumOver(grid, S) ==
    IF S = {} THEN 0
    ELSE LET coord == CHOOSE x \in S : TRUE
         IN grid[coord] + SumOver(grid, S \ {coord})

\* list(a_set): the elements of a set in the order the interpreter iterates it,
\* which is fixed for a given set but otherwise arbitrary.
RECURSIVE SetToList(_)
SetToList(S) ==
    IF S = {} THEN << >>
    ELSE LET x == CHOOSE y \in S : TRUE
         IN <<x>> \o SetToList(S \ {x})

----------------------------------------------------------------------------
(* field.py: module-level functions *)

\* round(num / den) of Python 3: to the nearest integer, a tie to the even one.
round(num, den) ==
    LET q == num \div den
        r == num % den
    IN IF 2 * r < den THEN q
       ELSE IF 2 * r > den THEN q + 1
       ELSE IF q % 2 = 0 THEN q ELSE q + 1

\* num_mines of initialize_mines
num_mines(num_rows, num_cols, ratio) ==
    round(num_rows * num_cols * ratio[1], ratio[2])

\* The mine matrix of the example script (game_tester.py), row by row.
example_rows ==
    << <<0, 0, 0, 1, 0, 0, 0>>,
       <<1, 1, 0, 1, 0, 0, 0>>,
       <<0, 0, 0, 0, 0, 0, 0>>,
       <<1, 1, 1, 1, 0, 0, 1>>,
       <<0, 1, 1, 0, 0, 1, 0>>,
       <<0, 1, 1, 1, 1, 0, 0>>,
       <<0, 0, 0, 0, 1, 0, 0>>,
       <<1, 1, 1, 1, 0, 0, 1>> >>

example_mines ==
    [coord \in Cells(Len(example_rows), Len(example_rows[1])) |->
        example_rows[coord[1] + 1][coord[2] + 1]]

\* initialize_mines: the grids a shuffle of num_mines ones and
\* total_squares - num_mines zeros can return.  They are all enumerated,
\* except on a field of the size of the example script, where the shuffle
\* considered is the one that yields the layout of that script.
initialize_mines(num_rows, num_cols, ratio) ==
    IF <<num_rows, num_cols>> # <<Len(example_rows), Len(example_rows[1])>>
    THEN { m \in [Cells(num_rows, num_cols) -> {0, 1}] :
            SumOver(m, Cells(num_rows, num_cols)) = num_mines(num_rows, num_cols, ratio) }
    ELSE { m \in {example_mines} :
            /\ DOMAIN m = Cells(num_rows, num_cols)
            /\ SumOver(m, DOMAIN m) = num_mines(num_rows, num_cols, ratio) }

\* The input of the convolution with mode='wrap': indices taken modulo the shape
Wrapped(mines, r, c) == mines[<<r % shape(mines)[1], c % shape(mines)[2]>>]

\* generate_adjacency_matrix with mode='wrap'
generate_adjacency_matrix_wrap(mines) ==
    [coord \in DOMAIN mines |->
        Wrapped(mines, coord[1] - 1, coord[2] - 1) + Wrapped(mines, coord[1] - 1, coord[2])
      + Wrapped(mines, coord[1] - 1, coord[2] + 1) + Wrapped(mines, coord[1], coord[2] - 1)
      + Wrapped(mines, coord[1], coord[2]) + Wrapped(mines, coord[1], coord[2] + 1)
      + Wrapped(mines, coord[1] + 1, coord[2] - 1) + Wrapped(mines, coord[1] + 1, coord[2])
      + Wrapped(mines, coord[1] + 1, coord[2] + 1)]

\* The input of the convolution outside the grid is cval = 0 (mode='constant').
Padded(mines, r, c) ==
    IF <<r, c>> \in DOMAIN mines THEN mines[<<r, c>>] ELSE 0

\* generate_adjacency_matrix with a kernel that lacks its left column
generate_adjacency_matrix_right(mines) ==
    [coord \in DOMAIN mines |->
        Padded(mines, coord[1] - 1, coord[2]) + Padded(mines, coord[1] - 1, coord[2] + 1)
      + Padded(mines, coord[1], coord[2]) + Padded(mines, coord[1], coord[2] + 1)
      + Padded(mines, coord[1] + 1, coord[2]) + Padded(mines, coord[1] + 1, coord[2] + 1)]

\* generate_adjacency_matrix: convolution with a 3x3 kernel of ones.
generate_adjacency_matrix(mines) ==
    [coord \in DOMAIN mines |->
        Padded(mines, coord[1] - 1, coord[2] - 1) + Padded(mines, coord[1] - 1, coord[2])
      + Padded(mines, coord[1] - 1, coord[2] + 1) + Padded(mines, coord[1], coord[2] - 1)
      + Padded(mines, coord[1], coord[2]) + Padded(mines, coord[1], coord[2] + 1)
      + Padded(mines, coord[1] + 1, coord[2] - 1) + Padded(mines, coord[1] + 1, coord[2])
      + Padded(mines, coord[1] + 1, coord[2] + 1)]

\* np.clip(x, lo, hi)
clip(x, lo, hi) == IF x < lo THEN lo ELSE IF x > hi THEN hi ELSE x

\* adjacent_squares without the diagonal cells
adjacent_squares_orthogonal(num_rows, num_cols, curr_row, curr_col) ==
    { <<clip(i, 0, num_rows - 1), curr_col>> : i \in (curr_row - 1) .. (curr_row + 1) }
    \cup { <<curr_row, clip(j, 0, num_cols - 1)>> : j \in (curr_col - 1) .. (curr_col + 1) }

\* adjacent_squares of reveal_square: the 3x3 block around the cell, each index
\* clipped to the grid, as a set.
adjacent_squares(num_rows, num_cols, curr_row, curr_col) ==
    { clip(i, 0, num_rows - 1) : i \in (curr_row - 1) .. (curr_row + 1) }
    \X { clip(j, 0, num_cols - 1) : j \in (curr_col - 1) .. (curr_col + 1) }

\* sum(adjacent_flagged) > adjacency_matrix[curr_row, curr_col]
enough_flagged_strict(flagged, adjacency_matrix, adjacent, curr) ==
    SumOver(flagged, adjacent) > adjacency_matrix[curr]

\* sum(adjacent_flagged) >= adjacency_matrix[curr_row, curr_col], where
\* adjacent_flagged holds the flags of the cells of adjacent
enough_flagged(flagged, adjacency_matrix, adjacent, curr) ==
    SumOver(flagged, adjacent) >= adjacency_matrix[curr]

\* can_add without its test of the flag
can_add_flagged(coord, already_checked, revealed, flagged) ==
    /\ coord \notin already_checked
    /\ revealed[coord] = 0

\* can_add of reveal_square
can_add(coord, already_checked, revealed, flagged) ==
    /\ coord \notin already_checked
    /\ revealed[coord] = 0
    /\ flagged[coord] = 0

\* The while loop of reveal_square: to_check is a list used as a stack.
RECURSIVE reveal_loop(_, _, _, _, _, _, _)
reveal_loop(flagged, adjacency_matrix, revealed, num, to_check, already_checked, update_matrix) ==
    IF Len(to_check) = 0 THEN update_matrix
    ELSE
        LET curr == to_check[Len(to_check)]
            popped == SubSeq(to_check, 1, Len(to_check) - 1)
            checked == already_checked \cup {curr}
            adjacent == adjacent_squares(num[1], num[2], curr[1], curr[2])
            addable(coord) == can_add(coord, checked, revealed, flagged)
            pushed ==
                IF enough_flagged(flagged, adjacency_matrix, adjacent, curr)
                THEN SelectSeq(SetToList(adjacent), addable)
                ELSE << >>
        IN reveal_loop(flagged, adjacency_matrix, revealed, num, popped \o pushed,
                       checked, [update_matrix EXCEPT ![curr] = 1])

\* reveal_square without its early return
reveal_square_no_return(flagged, adjacency_matrix, revealed, row_idx, col_idx, auto_reveal) ==
    reveal_loop(flagged, adjacency_matrix, revealed, shape(flagged), <<<<row_idx, col_idx>>>>,
                {}, [zeros(shape(flagged)[1], shape(flagged)[2]) EXCEPT ![<<row_idx, col_idx>>] = 1])

\* reveal_square: the grid of the cells this pick reveals.
reveal_square(flagged, adjacency_matrix, revealed, row_idx, col_idx, auto_reveal) ==
    LET num == shape(flagged)
        seed == <<row_idx, col_idx>>
        update_matrix == [zeros(num[1], num[2]) EXCEPT ![seed] = 1]
    IN IF ~auto_reveal /\ adjacency_matrix[seed] # 0
       THEN update_matrix
       ELSE reveal_loop(flagged, adjacency_matrix, revealed, num, <<seed>>, {},
                        update_matrix)

----------------------------------------------------------------------------
(* field.py: class Field *)

\* Field.initialized
initialized == _adjacency_matrix # None /\ _mines # None

\* _initialize without its re-sampling loop
_initialize_no_resample(row_idx, col_idx) ==
    initialize_mines(rows, cols, mine_ratio)

\* Field._initialize: the layouts the re-sampling loop can end with.  With a
\* mine on every cell there is none, and the loop does not end.
_initialize(row_idx, col_idx) ==
    { m \in initialize_mines(rows, cols, mine_ratio) : m[<<row_idx, col_idx>>] = 0 }

\* self._revealed = revelation_update
or_into_overwrite(revealed, revelation_update) == revelation_update

\* self._revealed ^= revelation_update
or_into_xor(revealed, revelation_update) ==
    [coord \in DOMAIN revealed |-> (revealed[coord] + revelation_update[coord]) % 2]

\* self._revealed |= revelation_update
or_into(revealed, revelation_update) ==
    [coord \in DOMAIN revealed |->
        IF revealed[coord] = 1 \/ revelation_update[coord] = 1 THEN 1 ELSE 0]

\* not np.all(self._mines * self._revealed)
no_mine_revealed_all(mines, revealed) ==
    ~ \A coord \in DOMAIN mines : mines[coord] * revealed[coord] # 0

\* not np.any(self._mines * self._revealed)
no_mine_revealed(mines, revealed) ==
    ~ \E coord \in DOMAIN mines : mines[coord] * revealed[coord] # 0

\* The record of a pick_square call: its arguments, whether it initialized the
\* field, whether the call before it was the same call, the grid reveal_square
\* returned and the value pick_square returned.
PickRecord(row_idx, col_idx, auto_reveal, revelation_update, ret) ==
    [op |-> "pick_square", row |-> row_idx, col |-> col_idx,
     auto_reveal |-> auto_reveal, first |-> ~initialized,
     repeat |-> /\ last.op = "pick_square"
                /\ last.row = row_idx
                /\ last.col = col_idx
                /\ last.auto_reveal = auto_reveal,
     update |-> revelation_update, ret |-> ret]

\* pick_square without its test of initialized: every pick samples the mines anew
pick_square_resample(row_idx, col_idx, auto_reveal) ==
    /\ \E m \in _initialize(row_idx, col_idx) :
        LET adj == generate_adjacency_matrix(m)
            revelation_update ==
                reveal_square(_flagged, adj, _revealed, row_idx, col_idx, auto_reveal)
            new_revealed == or_into(_revealed, revelation_update)
        IN /\ _mines' = m
           /\ _adjacency_matrix' = adj
           /\ _revealed' = new_revealed
           /\ last' = PickRecord(row_idx, col_idx, auto_reveal, revelation_update,
                                 no_mine_revealed(m, new_revealed))
    /\ UNCHANGED <<rows, cols, mine_ratio, _flagged>>

\* Field.pick_square
pick_square(row_idx, col_idx, auto_reveal) ==
    /\ \E m \in (IF initialized THEN {_mines} ELSE _initialize(row_idx, col_idx)) :
        LET adj == IF initialized THEN _adjacency_matrix ELSE generate_adjacency_matrix(m)
            revelation_update ==
                reveal_square(_flagged, adj, _revealed, row_idx, col_idx, auto_reveal)
            new_revealed == or_into(_revealed, revelation_update)
        IN /\ _mines' = m
           /\ _adjacency_matrix' = adj
           /\ _revealed' = new_revealed
           /\ last' = PickRecord(row_idx, col_idx, auto_reveal, revelation_update,
                                 no_mine_revealed(m, new_revealed))
    /\ UNCHANGED <<rows, cols, mine_ratio, _flagged>>

\* toggle_flag_square without its test of revealed
toggle_flag_square_unchecked(row_idx, col_idx) ==
    /\ _flagged' = [_flagged EXCEPT ![<<row_idx, col_idx>>] = (@ + 1) % 2]
    /\ last' = [op |-> "toggle_flag_square", row |-> row_idx, col |-> col_idx]
    /\ UNCHANGED <<rows, cols, mine_ratio, _mines, _adjacency_matrix, _revealed>>

\* Field.toggle_flag_square
toggle_flag_square(row_idx, col_idx) ==
    /\ _flagged' =
         IF _revealed[<<row_idx, col_idx>>] = 0
         THEN [_flagged EXCEPT ![<<row_idx, col_idx>>] = (@ + 1) % 2]
         ELSE _flagged
    /\ last' = [op |-> "toggle_flag_square", row |-> row_idx, col |-> col_idx]
    /\ UNCHANGED <<rows, cols, mine_ratio, _mines, _adjacency_matrix, _revealed>>

\* Field.__init__
Field(num_rows, num_cols, ratio) ==
    /\ rows = num_rows
    /\ cols = num_cols
    /\ mine_ratio = ratio
    /\ _revealed = zeros(num_rows, num_cols)
    /\ _mines = None
    /\ _adjacency_matrix = None
    /\ _flagged = zeros(num_rows, num_cols)
    /\ last = [op |-> "__init__"]

----------------------------------------------------------------------------
(* application.py: class FieldController *)

\* FieldController.__init__
FieldController ==
    /\ _status = "Playing"
    /\ _cursor_row = 0
    /\ _cursor_col = 0
    /\ _auto_reveal = FALSE
    /\ rendered = FALSE

max(a, b) == IF a >= b THEN a ELSE b
min(a, b) == IF a <= b THEN a ELSE b

_move_cursor_up == _cursor_row' = max(0, _cursor_row - 1) /\ UNCHANGED _cursor_col
_move_cursor_down == _cursor_row' = min(_cursor_row + 1, rows - 1) /\ UNCHANGED _cursor_col
_move_cursor_left == _cursor_col' = max(0, _cursor_col - 1) /\ UNCHANGED _cursor_row
_move_cursor_right == _cursor_col' = min(_cursor_col + 1, cols - 1) /\ UNCHANGED _cursor_row

\* FieldController.handle_action: the handler of every key but the arrows.
handle_action(key) ==
    IF key = "f" THEN
        /\ toggle_flag_square(_cursor_row, _cursor_col)
        /\ UNCHANGED <<_status, _cursor_row, _cursor_col, _auto_reveal>>
    ELSE IF key = "x" THEN
        /\ pick_square(_cursor_row, _cursor_col, _auto_reveal)
        /\ _status' = IF last'.ret THEN _status ELSE "Lost"
        /\ UNCHANGED <<_cursor_row, _cursor_col, _auto_reveal>>
    ELSE IF key = "h" THEN
        _move_cursor_left /\ UNCHANGED <<fieldVars, last, _status, _auto_reveal>>
    ELSE IF key = "j" THEN
        _move_cursor_down /\ UNCHANGED <<fieldVars, last, _status, _auto_reveal>>
    ELSE IF key = "k" THEN
        _move_cursor_up /\ UNCHANGED <<fieldVars, last, _status, _auto_reveal>>
    ELSE IF key = "l" THEN
        _move_cursor_right /\ UNCHANGED <<fieldVars, last, _status, _auto_reveal>>
    ELSE IF key = "q" THEN
        /\ _auto_reveal' = ~_auto_reveal
        /\ UNCHANGED <<fieldVars, last, _status, _cursor_row, _cursor_col>>
    ELSE UNCHANGED <<fieldVars, last, _status, _cursor_row, _cursor_col, _auto_reveal>>

\* np.all(mined == revealed) with revealed not negated
all_mined_eq_revealed ==
    \A coord \in DOMAIN _mines : (_mines[coord] # 0) = (_revealed[coord] # 0)

\* np.all(mined == revealed) of evaluate_win_condition, where revealed is
\* ~self._field.revealed.astype(bool)
all_mined_eq_not_revealed ==
    \A coord \in DOMAIN _mines : (_mines[coord] # 0) = ~(_revealed[coord] # 0)

\* FieldController.evaluate_win_condition
evaluate_win_condition ==
    _status' =
        IF _status = "Lost" THEN _status
        ELSE IF ~initialized THEN _status
        ELSE IF all_mined_eq_not_revealed THEN "Won"
        ELSE _status

\* FieldController.create_content: the win evaluation, then the rendering,
\* which changes nothing.
create_content ==
    /\ evaluate_win_condition
    /\ rendered' = TRUE
    /\ UNCHANGED <<fieldVars, last, _cursor_row, _cursor_col, _auto_reveal>>

----------------------------------------------------------------------------
(* The engine driven through its two operations *)

Shapes == { s \in (1 .. MaxCells) \X (1 .. MaxCells) : s[1] * s[2] <= MaxCells }

\* The field of the example script: 8 x 7 cells, 22 of them mined.
ExampleConfig ==
    << Len(example_rows), Len(example_rows[1]),
       << SumOver(example_mines, DOMAIN example_mines), Cardinality(DOMAIN example_mines) >> >>

Configs == { <<s[1], s[2], ratio>> : s \in Shapes, ratio \in MineRatios } \cup {ExampleConfig}

Init ==
    /\ \E cfg \in Configs : Field(cfg[1], cfg[2], cfg[3])
    /\ FieldController

\* create_app, on a field of at most MaxCtrlCells cells
InitController ==
    /\ \E cfg \in Configs : cfg[1] * cfg[2] <= MaxCtrlCells /\ Field(cfg[1], cfg[2], cfg[3])
    /\ FieldController

Enumerated == rows * cols <= MaxCells

\* The caller keeps at most MaxFlags flags on an enumerated field, and one on
\* the field of the example script, which it places before the first pick.
WithinFlags(row_idx, col_idx) ==
    IF Enumerated
    THEN \/ _flagged[<<row_idx, col_idx>>] = 1
         \/ _revealed[<<row_idx, col_idx>>] = 1
         \/ SumOver(_flagged, DOMAIN _flagged) < MaxFlags
    ELSE /\ ~initialized
         /\ \A coord \in DOMAIN _flagged : _flagged[coord] = 1 => coord = <<row_idx, col_idx>>

\* On the field of the example script only the first pick is followed.
WithinPicks == Enumerated \/ ~initialized

Pick ==
    \E coord \in Cells(rows, cols), a \in BOOLEAN :
        /\ WithinPicks
        /\ pick_square(coord[1], coord[2], a)
        /\ UNCHANGED ctrlVars

Toggle ==
    \E coord \in Cells(rows, cols) :
        /\ WithinFlags(coord[1], coord[2])
        /\ toggle_flag_square(coord[1], coord[2])
        /\ UNCHANGED ctrlVars

Next == Pick \/ Toggle

Spec == Init /\ [][Next]_vars

----------------------------------------------------------------------------
(* The controller driven by key events and redraws *)

Keys == {"f", "x", "h", "j", "k", "l", "q", "a"}

KeyAny ==
    \E key \in Keys :
        /\ key = "f" => WithinFlags(_cursor_row, _cursor_col)
        /\ key = "x" => WithinPicks
        /\ handle_action(key)
        /\ rendered' = FALSE

KeyUp ==
    _move_cursor_up /\ rendered' = FALSE /\ UNCHANGED <<fieldVars, last, _status, _auto_reveal>>

KeyDown ==
    _move_cursor_down /\ rendered' = FALSE /\ UNCHANGED <<fieldVars, last, _status, _auto_reveal>>

KeyLeft ==
    _move_cursor_left /\ rendered' = FALSE /\ UNCHANGED <<fieldVars, last, _status, _auto_reveal>>

KeyRight ==
    _move_cursor_right /\ rendered' = FALSE /\ UNCHANGED <<fieldVars, last, _status, _auto_reveal>>

Render == create_content

NextController == KeyAny \/ KeyUp \/ KeyDown \/ KeyLeft \/ KeyRight \/ Render

SpecController == InitController /\ [][NextController]_vars

----------------------------------------------------------------------------
(* Properties *)

\* The cells a 0/1 grid marks
Marked(grid) == { coord \in DOMAIN grid : grid[coord] = 1 }

\* Two cells are the same cell or neighbours, diagonals included.
Near(a, b) ==
    /\ a[1] - b[1] \in {-1, 0, 1}
    /\ a[2] - b[2] \in {-1, 0, 1}

\* The number of flagged cells among the in-bounds cells of the 3x3 block around a cell
FlagCount(flagged, cell) == Cardinality({ coord \in Marked(flagged) : Near(coord, cell) })

Seed == <<last.row, last.col>>

PickedLast == last.op = "pick_square"

MineRevealed == initialized /\ Marked(_mines) \cap Marked(_revealed) # {}

\* C1: after the first pick_square on an uninitialized field, the picked cell
\* holds no mine, whatever the size, the mine count, the flags and the mode.
C1_SafeFirstClick ==
    (PickedLast /\ last.first) => _mines[Seed] = 0

C1_Witness ==
    /\ PickedLast /\ last.first
    /\ Cardinality(Marked(_mines)) >= 2
    /\ Marked(_flagged) # {}

RECURSIVE ZeroComponent(_, _)
ZeroComponent(adjacency_matrix, S) ==
    LET T == S \cup { coord \in DOMAIN adjacency_matrix :
                        /\ adjacency_matrix[coord] = 0
                        /\ \E s \in S : Near(s, coord) }
    IN IF T = S THEN S ELSE ZeroComponent(adjacency_matrix, T)

\* The component with all in-bounds neighbours of its cells
ZeroCascade(adjacency_matrix, seed) ==
    LET component == ZeroComponent(adjacency_matrix, {seed})
    IN { coord \in DOMAIN adjacency_matrix : \E s \in component : Near(s, coord) }

NoFlags == Marked(_flagged) = {}

\* C3: a pick with auto_reveal = false of a zero-adjacency cell, on a field
\* that has just been initialized and has no flagged and no revealed cell,
\* reveals exactly the zero component of the cell with its neighbours and
\* returns true; on the layout of the example script the pick of (1, 5) reveals exactly
\* rows 0..2 x columns 4..6.
C3_ZeroCascade ==
    /\ (PickedLast /\ last.first /\ ~last.auto_reveal /\ NoFlags
            /\ _adjacency_matrix[Seed] = 0)
        => /\ Marked(_revealed) = ZeroCascade(_adjacency_matrix, Seed)
           /\ last.ret = TRUE
    /\ (PickedLast /\ last.first /\ ~last.auto_reveal /\ NoFlags
            /\ _mines = example_mines /\ Seed = <<1, 5>>)
        => Marked(_revealed) = (0 .. 2) \X (4 .. 6)

C3_Witness ==
    /\ PickedLast /\ last.first /\ ~last.auto_reveal /\ NoFlags
    /\ _mines = example_mines /\ Seed = <<1, 5>>
    /\ _adjacency_matrix[Seed] = 0
    /\ last.ret = TRUE

\* The reference of C4: the least set that holds S and, with each of its cells
\* whose flagged count reaches its adjacency value, the unflagged and
\* unrevealed neighbours of that cell.
RECURSIVE ChordClosure(_, _, _, _)
ChordClosure(flagged, adjacency_matrix, revealed, S) ==
    LET T == S \cup { coord \in DOMAIN flagged :
                        /\ flagged[coord] = 0
                        /\ revealed[coord] = 0
                        /\ \E s \in S : /\ Near(s, coord)
                                        /\ FlagCount(flagged, s) >= adjacency_matrix[s] }
    IN IF T = S THEN S ELSE ChordClosure(flagged, adjacency_matrix, revealed, T)

C5_SingleReveal ==
    [][ (/\ last'.op = "pick_square" /\ ~last'.auto_reveal
         /\ _flagged[<<last'.row, last'.col>>] = 0
         /\ _adjacency_matrix'[<<last'.row, last'.col>>] # 0) =>
            _revealed' = [_revealed EXCEPT ![<<last'.row, last'.col>>] = 1] ]_vars

C5_Witness ==
    /\ PickedLast /\ ~last.auto_reveal
    /\ _flagged[Seed] = 0
    /\ _adjacency_matrix[Seed] # 0
    /\ FlagCount(_flagged, Seed) >= _adjacency_matrix[Seed]
    /\ \E coord \in DOMAIN _revealed :
          Near(Seed, coord) /\ _revealed[coord] = 0 /\ _flagged[coord] = 0

\* C6: a pick reveals its own cell even when that cell is flagged, and every
\* other cell it reveals was unflagged when it was called.
C6_FlaggedNotCascaded ==
    [][ (last'.op = "pick_square") =>
            /\ _revealed'[<<last'.row, last'.col>>] = 1
            /\ \A coord \in DOMAIN _revealed :
                  (/\ coord # <<last'.row, last'.col>>
                   /\ _revealed[coord] = 0
                   /\ _revealed'[coord] = 1) => _flagged[coord] = 0 ]_vars

C6_Witness ==
    /\ PickedLast
    /\ _flagged[Seed] = 1
    /\ Marked(last.update) \ {Seed} # {}
    /\ \E coord \in Marked(_flagged) \ {Seed} :
          /\ _revealed[coord] = 0
          /\ \E u \in Marked(last.update) : Near(u, coord)

\* C7: a revealed cell stays revealed across every call.
C7_RevealedMonotone ==
    [][ \A coord \in DOMAIN _revealed : _revealed[coord] = 1 => _revealed'[coord] = 1 ]_vars

C7_Witness ==
    /\ PickedLast
    /\ Marked(_revealed) \ Marked(last.update) # {}
    /\ Marked(last.update) \ {Seed} # {}

\* C8: toggle_flag_square on an unrevealed cell flips the flag of that cell and
\* changes nothing else; on a revealed cell it changes nothing; so no call
\* changes the flag of a revealed cell.
C8_ToggleFrame ==
    [][ /\ (last'.op = "toggle_flag_square") =>
            LET cell == <<last'.row, last'.col>>
            IN /\ _revealed[cell] = 0 =>
                    _flagged' = [_flagged EXCEPT ![cell] = 1 - _flagged[cell]]
               /\ _revealed[cell] = 1 => _flagged' = _flagged
               /\ UNCHANGED <<rows, cols, mine_ratio, _mines, _adjacency_matrix, _revealed>>
        /\ \A coord \in DOMAIN _revealed :
              _revealed[coord] = 1 => _flagged'[coord] = _flagged[coord] ]_vars

C8_Witness ==
    /\ last.op = "toggle_flag_square"
    /\ _revealed[Seed] = 1
    /\ _flagged[Seed] = 1
    /\ Marked(_flagged) \ Marked(_revealed) # {}

\* C9: after the win evaluation that follows a key event, the status is Won
\* exactly when the field is initialized, the status is not Lost and every cell
\* is revealed exactly when it is no mine; and it is not Won while a mine is
\* revealed.
C9_WinCondition ==
    rendered =>
        /\ (_status = "Won") <=>
              /\ initialized
              /\ _status # "Lost"
              /\ Marked(_revealed) = DOMAIN _revealed \ Marked(_mines)
        /\ (_status = "Won") => ~MineRevealed

C9_Witness ==
    /\ rendered
    /\ _status = "Won"
    /\ Marked(_mines) \cap Marked(_flagged) # {}
    /\ Marked(_revealed) # {}

\* C10: a pick_square call made right after a pick_square call with the same
\* arguments leaves revealed unchanged and returns what that call returned.
C10_RepeatedPick ==
    [][ (last.op = "pick_square" /\ last'.op = "pick_square" /\ last'.repeat) =>
            /\ _revealed' = _revealed
            /\ last'.ret = last.ret ]_vars

C10_Witness ==
    /\ PickedLast /\ last.repeat /\ last.auto_reveal
    /\ FlagCount(_flagged, Seed) >= _adjacency_matrix[Seed]
    /\ Marked(_revealed) \ {Seed} # {}
    /\ Marked(_flagged) # {}

----------------------------------------------------------------------------
(* Fields built from a mine matrix *)

MatrixShapes ==
    { s \in (1 .. MaxMatrixCells) \X (1 .. MaxMatrixCells) : s[1] * s[2] <= MaxMatrixCells }

\* The matrices supplied: every 0/1 matrix of a bounded shape, and the one of
\* the example script.
Matrices ==
    UNION { [Cells(s[1], s[2]) -> {0, 1}] : s \in MatrixShapes } \cup {example_mines}

\* Field.from_mine_matrix up to the assignment of _mines: the field is
\* constructed with the shape of the matrix and the fraction of its mines,
\* and holds the matrix.
from_mine_matrix_mines(mines) ==
    /\ rows = shape(mines)[1]
    /\ cols = shape(mines)[2]
    /\ mine_ratio = << SumOver(mines, DOMAIN mines), shape(mines)[1] * shape(mines)[2] >>
    /\ _revealed = zeros(shape(mines)[1], shape(mines)[2])
    /\ _flagged = zeros(shape(mines)[1], shape(mines)[2])
    /\ _mines = mines
    /\ _adjacency_matrix = None
    /\ last = [op |-> "__init__"]

\* Field.from_mine_matrix from its assignment to adjacency_matrix: the grid is
\* computed, and storing it in adjacency_matrix, a property without a setter,
\* raises AttributeError; nothing is stored and no field is returned.
from_mine_matrix_adjacency ==
    /\ last.op = "__init__"
    /\ last' = [op |-> "from_mine_matrix", raised |-> "AttributeError",
                value |-> generate_adjacency_matrix(_mines)]
    /\ UNCHANGED <<fieldVars, ctrlVars>>

\* The last statement of Field._initialize, reached with a layout that has a
\* cell without a mine.
_initialize_adjacency ==
    /\ last.op = "__init__"
    /\ \E coord \in DOMAIN _mines : _mines[coord] = 0
    /\ _adjacency_matrix' = generate_adjacency_matrix(_mines)
    /\ last' = [op |-> "_initialize"]
    /\ UNCHANGED <<rows, cols, mine_ratio, _mines, _revealed, _flagged, ctrlVars>>

InitMatrix ==
    /\ \E mines \in Matrices : from_mine_matrix_mines(mines)
    /\ FieldController

NextMatrix == from_mine_matrix_adjacency \/ _initialize_adjacency

SpecMatrix == InitMatrix /\ [][NextMatrix]_vars

\* C11: from_mine_matrix returns without raising, and the field it returns is
\* initialized: it holds the supplied mines and the adjacency grid computed
\* from them.
C11_FromMineMatrix ==
    (last.op = "from_mine_matrix") =>
        /\ last.raised = "None"
        /\ initialized
        /\ _adjacency_matrix = generate_adjacency_matrix(_mines)

\* The number of mined cells among the in-bounds cells of the 3x3 block around a cell
MinesAround(mines, cell) ==
    Cardinality({ coord \in DOMAIN mines : mines[coord] = 1 /\ Near(coord, cell) })

\* C12: every entry of the adjacency grid computed from a mine layout is the
\* number of mined cells among the in-bounds cells of the 3x3 block around it,
\* the cell itself included; nothing outside the grid is counted.
C12_AdjacencyCount ==
    /\ _adjacency_matrix # None =>
          \A coord \in DOMAIN _mines :
              _adjacency_matrix[coord] = MinesAround(_mines, coord)
    /\ (last.op = "from_mine_matrix") =>
          \A coord \in DOMAIN _mines : last.value[coord] = MinesAround(_mines, coord)

C12_Witness ==
    /\ _adjacency_matrix # None
    /\ rows = 3 /\ cols = 3
    /\ _adjacency_matrix[<<1, 1>>] = 5
    /\ _adjacency_matrix[<<0, 0>>] = 1
    /\ _adjacency_matrix[<<2, 2>>] = 3
    /\ _mines[<<1, 1>>] = 1

----------------------------------------------------------------------------
(* Initialization *)

\* C13: mines and adjacency are both absent or both present in every state
\* between two calls, and once the field is initialized no pick_square and no
\* toggle_flag_square changes either of them.
C13_InitializedFrozen ==
    /\ []((_mines = None) <=> (_adjacency_matrix = None))
    /\ [][initialized => (_mines' = _mines /\ _adjacency_matrix' = _adjacency_matrix)]_vars

C13_Witness ==
    /\ PickedLast
    /\ ~last.first
    /\ initialized
    /\ Marked(_mines) # {}
    /\ Marked(_flagged) # {}

\* C14: the first pick_square on an uninitialized field returns true, whatever
\* flags were placed before it and whatever the mode.
C14_FirstPickSurvives == (PickedLast /\ last.first) => last.ret = TRUE

\* C18: a pick made while no cell is flagged uncovers a mine only at the
\* picked cell; so a pick of a cell without a mine returns true unless a mine
\* was revealed before it.
C18_NoFlagCascadeSafe ==
    [][(last'.op = "pick_square" /\ NoFlags) =>
          /\ Marked(_mines') \cap Marked(last'.update) \subseteq {<<last'.row, last'.col>>}
          /\ (_mines'[<<last'.row, last'.col>>] = 0 /\ ~MineRevealed) => last'.ret = TRUE]_vars

C18_Witness ==
    /\ PickedLast
    /\ NoFlags
    /\ Cardinality(Marked(last.update)) >= 2
    /\ Marked(_mines) # {}
    /\ last.ret = TRUE

----------------------------------------------------------------------------
(* Controller status *)

\* C19: once the status is Won, no key event and no win evaluation changes it.
C19_WonTerminal == [][_status = "Won" => _status' = "Won"]_vars

----------------------------------------------------------------------------
(* pick_square step by step: the loop of _initialize and the loop of reveal_square *)

\* While a call of pick_square is in progress, last holds its frame: the
\* arguments and the local variables of the function being executed.
InProgress == last.op \in {"_initialize", "reveal_square"}

\* reveal_square up to its while loop: the locals after the early-return test.
\* The iterations take any element of to_check, so its order is immaterial
\* and it is kept as a bag: each cell with the number of times it is listed.
reveal_square_enter(adjacency_matrix, row_idx, col_idx, auto_reveal) ==
    [op |-> "reveal_square", row |-> row_idx, col |-> col_idx, auto_reveal |-> auto_reveal,
     pc |-> IF ~auto_reveal /\ adjacency_matrix[<<row_idx, col_idx>>] # 0
            THEN "return" ELSE "while",
     to_check |-> SetToBag({<<row_idx, col_idx>>}),
     already_checked |-> {},
     update_matrix |-> [zeros(rows, cols) EXCEPT ![<<row_idx, col_idx>>] = 1]]

\* One iteration of the while loop that leaves the loop when the flag count is too low
reveal_step_break(frame, curr) ==
    LET checked == frame.already_checked \cup {curr}
        adjacent == adjacent_squares(rows, cols, curr[1], curr[2])
    IN [frame EXCEPT
           !.to_check =
               IF enough_flagged(_flagged, _adjacency_matrix, adjacent, curr)
               THEN (@ (-) SetToBag({curr}))
                    (+) SetToBag({ coord \in adjacent :
                                     can_add(coord, checked, _revealed, _flagged) })
               ELSE EmptyBag,
           !.already_checked = checked,
           !.update_matrix = [@ EXCEPT ![curr] = 1]]

\* One iteration of the while loop that keeps curr on to_check while the flag count is too low
reveal_step_requeue(frame, curr) ==
    LET checked == frame.already_checked \cup {curr}
        adjacent == adjacent_squares(rows, cols, curr[1], curr[2])
    IN [frame EXCEPT
           !.to_check =
               IF enough_flagged(_flagged, _adjacency_matrix, adjacent, curr)
               THEN (@ (-) SetToBag({curr}))
                    (+) SetToBag({ coord \in adjacent :
                                     can_add(coord, checked, _revealed, _flagged) })
               ELSE @,
           !.already_checked = checked,
           !.update_matrix = [@ EXCEPT ![curr] = 1]]

\* One iteration of the while loop of reveal_square, taking one occurrence of
\* curr from to_check; to_check.pop() takes the element appended last.
reveal_step(frame, curr) ==
    LET checked == frame.already_checked \cup {curr}
        adjacent == adjacent_squares(rows, cols, curr[1], curr[2])
        pushed ==
            IF enough_flagged(_flagged, _adjacency_matrix, adjacent, curr)
            THEN SetToBag({ coord \in adjacent : can_add(coord, checked, _revealed, _flagged) })
            ELSE EmptyBag
    IN [frame EXCEPT
           !.to_check = (@ (-) SetToBag({curr})) (+) pushed,
           !.already_checked = checked,
           !.update_matrix = [@ EXCEPT ![curr] = 1]]

StepShapes ==
    { s \in (1 .. MaxStepCells) \X (1 .. MaxStepCells) : s[1] * s[2] <= MaxStepCells }

InitSteps ==
    /\ \E s \in StepShapes, ratio \in MineRatios : Field(s[1], s[2], ratio)
    /\ FieldController

\* The caller keeps at most MaxFlags flags.
StepWithinFlags(row_idx, col_idx) ==
    \/ _flagged[<<row_idx, col_idx>>] = 1
    \/ _revealed[<<row_idx, col_idx>>] = 1
    \/ SumOver(_flagged, DOMAIN _flagged) < MaxFlags

\* pick_square is called: on an uninitialized field _initialize draws its
\* first layout, on an initialized one reveal_square is entered.
BeginPick ==
    /\ ~InProgress
    /\ \E coord \in Cells(rows, cols), a \in BOOLEAN :
        IF initialized
        THEN /\ last' = reveal_square_enter(_adjacency_matrix, coord[1], coord[2], a)
             /\ UNCHANGED <<fieldVars, ctrlVars>>
        ELSE /\ \E m \in initialize_mines(rows, cols, mine_ratio) : _mines' = m
             /\ last' = [op |-> "_initialize", row |-> coord[1], col |-> coord[2],
                         auto_reveal |-> a]
             /\ UNCHANGED <<rows, cols, mine_ratio, _adjacency_matrix, _revealed,
                            _flagged, ctrlVars>>

\* An iteration of the while loop of _initialize: the picked cell holds a
\* mine, and the layout is drawn again.
Resample ==
    /\ last.op = "_initialize"
    /\ _mines[<<last.row, last.col>>] = 1
    /\ \E m \in initialize_mines(rows, cols, mine_ratio) : _mines' = m
    /\ UNCHANGED <<rows, cols, mine_ratio, _adjacency_matrix, _revealed, _flagged,
                   ctrlVars, last>>

\* A draw that leaves the picked cell without a mine
ResampleSafe == Resample /\ _mines'[<<last.row, last.col>>] = 0

\* The while loop of _initialize is left, the adjacency grid is computed and
\* reveal_square is entered.
EndInitialize ==
    /\ last.op = "_initialize"
    /\ _mines[<<last.row, last.col>>] = 0
    /\ _adjacency_matrix' = generate_adjacency_matrix(_mines)
    /\ last' = reveal_square_enter(generate_adjacency_matrix(_mines), last.row, last.col,
                                   last.auto_reveal)
    /\ UNCHANGED <<rows, cols, mine_ratio, _mines, _revealed, _flagged, ctrlVars>>

RevealStep ==
    /\ last.op = "reveal_square"
    /\ last.pc = "while"
    /\ \E curr \in BagToSet(last.to_check) : last' = reveal_step(last, curr)
    /\ UNCHANGED <<fieldVars, ctrlVars>>

\* reveal_square returns update_matrix, and pick_square ors it into revealed
\* and returns.
EndPick ==
    /\ last.op = "reveal_square"
    /\ last.pc = "return" \/ last.to_check = EmptyBag
    /\ _revealed' = or_into(_revealed, last.update_matrix)
    /\ last' = [op |-> "pick_square", update |-> last.update_matrix,
                ret |-> no_mine_revealed(_mines, or_into(_revealed, last.update_matrix))]
    /\ UNCHANGED <<rows, cols, mine_ratio, _mines, _adjacency_matrix, _flagged, ctrlVars>>

StepToggle ==
    /\ ~InProgress
    /\ \E coord \in Cells(rows, cols) :
        /\ StepWithinFlags(coord[1], coord[2])
        /\ toggle_flag_square(coord[1], coord[2])
    /\ UNCHANGED ctrlVars

NextSteps == BeginPick \/ Resample \/ EndInitialize \/ RevealStep \/ EndPick \/ StepToggle

SpecSteps == InitSteps /\ [][NextSteps]_vars

FairShapes == { s \in StepShapes : s[1] <= MaxFairSide /\ s[2] <= MaxFairSide }

InitFair ==
    /\ \E s \in FairShapes, ratio \in MineRatios : Field(s[1], s[2], ratio)
    /\ FieldController

\* A call in progress keeps running, and the random draws are fair: a layout
\* that can be drawn again and again is drawn.
FairSpecSteps ==
    /\ InitFair
    /\ [][NextSteps]_vars
    /\ WF_vars(RevealStep)
    /\ WF_vars(EndPick)
    /\ WF_vars(EndInitialize)
    /\ SF_vars(ResampleSafe)

\* C15: whichever element of the worklist each iteration takes, pick_square
\* ends with the grid reveal_square computes with its stack, ors that grid
\* into revealed and returns the same value.
C15_OrderIndependent ==
    [][(last.op = "reveal_square" /\ last'.op = "pick_square") =>
          LET update == reveal_square(_flagged, _adjacency_matrix, _revealed,
                                      last.row, last.col, last.auto_reveal)
          IN /\ last'.update = update
             /\ _revealed' = or_into(_revealed, update)
             /\ last'.ret = no_mine_revealed(_mines, or_into(_revealed, update))]_vars

C15_Witness ==
    /\ last.op = "reveal_square"
    /\ last.already_checked # {}
    /\ Cardinality(BagToSet(last.to_check)) >= 2
    /\ Marked(_flagged) # {}
    /\ Marked(_mines) # {}

\* C16: the loop of reveal_square ends: every call of reveal_square that has
\* been entered returns, even if a cell is on the worklist several times.
C16_RevealTerminates == (last.op = "reveal_square") ~> (last.op = "pick_square")

C16_Witness ==
    /\ last.op = "reveal_square"
    /\ \E coord \in BagToSet(last.to_check) : CopiesIn(coord, last.to_check) >= 2

\* C17: with mine_ratio < 1 the loop of _initialize ends under fair draws:
\* the field becomes initialized.
C17_InitializeTerminates ==
    (last.op = "_initialize" /\ mine_ratio[1] < mine_ratio[2]) ~> initialized

====
